---- MODULE Spec2Model ----
(***************************************************************************)
(* The orchestration core of courtsdk (engine.go): the replica coordinator *)
(* (runAsConcurrent), the replica / sequential runners (spawnEngine,       *)
(* runAsSequential), the range allocator (setRange), the status channel    *)
(* aggregator (channelControl) and the failure / recovery policy           *)
(* (shouldStop, handleChannelStatus, setRecoveryStart, Done, Persist).     *)
(*                                                                         *)
(* Engine 0 is the engine the caller built with NewEngine.  Engines 1..    *)
(* are the copies spawnEngine's value receiver makes, one per replica, in  *)
(* spawn order.  A goroutine is a program counter; an unbuffered channel   *)
(* is the set of goroutines blocked sending on it.                         *)
(***************************************************************************)
EXTENDS Integers, Sequences, FiniteSets, TLC

\* ---------------------------------------------------------------- bounds
MaxSpawns == 4      \* replicas the coordinator spawns before the model stops spawning
MaxOps == 2         \* status pushes / Persist calls of the entry point per attempt
MaxIndex == 10      \* a sequential entry point advances CurrentIndex no further than this
MaxCount == 3       \* the largest Failures and MaxFailures the policy functions are given

\* ------------------------------------------------------------- constants
StatusOK == 200
StatusInternalServerError == 500
UseDefaultChannelControl == TRUE

Caller == 0
Replicas == 1..MaxSpawns
Engines == 0..MaxSpawns
StatusCodes == {StatusOK, StatusInternalServerError, 404}

VARIABLES
    \* Engine configuration, set by the options and never written afterwards
    \* (every replica's copy holds the same values)
    MaxFailures, MaxRecoveries, PageSize, IsConcurrent, MaxReplicas, ReplicaRange,
    EntryPoint,
    \* Engine fields the run mutates, one per engine
    Start, End, Failures, Recoveries, CurrentIndex, done,
    \* shared objects
    LastGoRoutineRange,     \* ControlConfig["LastGoRoutineRange"]
    mutex,                  \* sync.Mutex of runAsConcurrent: 0 free, else its holder
    Lock,                   \* sync.WaitGroup counters, by handle
    \* coordinator
    coord, activeEngines, maxEngines, spawned,
    \* goroutines
    pc,                     \* where each runner is
    aggregators,            \* live aggregator goroutines bound to each engine
    sending,                \* the status a runner blocked in a channel send offers
    err,                    \* Persist's local: the upsert failed
    ops,                    \* pushes the entry point made in this attempt
    connectedToIndex,       \* the outcome of ConnectedToIndex each runner holds
    \* observations
    invocations,            \* entry point invocations, per engine
    nonOK,                  \* non-200 signals handled since Failures was last zero-reset
    assigned,               \* the range setRange logged for each replica, or <<>>
    capacitySignals,        \* sends on maxEnginesChannel each replica completed
    activitySignals,        \* sends on activeEnginesChannel each replica completed
    stop,                   \* <<the value the last call of shouldStop returned>>
    doneCalls,              \* calls of Done() made on an engine outside a run
    panic                   \* the runtime error that ended the process, or "none"

cfgVars == <<MaxFailures, MaxRecoveries, PageSize, IsConcurrent, MaxReplicas,
             ReplicaRange, EntryPoint>>
engVars == <<Start, End, Failures, Recoveries, CurrentIndex, done>>
coordVars == <<coord, activeEngines, maxEngines, spawned>>
vars == <<MaxFailures, MaxRecoveries, PageSize, IsConcurrent, MaxReplicas,
          ReplicaRange, EntryPoint, Start, End, Failures, Recoveries, CurrentIndex,
          done, LastGoRoutineRange, mutex, Lock, coord, activeEngines, maxEngines,
          spawned, pc, aggregators, sending, err, ops, connectedToIndex,
          invocations, nonOK, assigned, capacitySignals, activitySignals, stop,
          doneCalls, panic>>

\* ------------------------------------------------------- shared handles
\* NewEngine makes one channel and one WaitGroup and stores the channel and a
\* pointer to the WaitGroup in the Engine; spawnEngine's value receiver copies
\* the struct, so every replica's copy holds the caller's channel and WaitGroup.
ChannelOf(e) == Caller

LockOf(e) == Caller

\* ------------------------------------------------ failure/recovery policy
shouldStopOffByOne(e) ==
    IF Failures[e] > MaxFailures THEN TRUE
    ELSE IF IsConcurrent /\ CurrentIndex[e] > End[e] THEN TRUE
    ELSE IF done[e] THEN TRUE
    ELSE FALSE

shouldStop(e) ==
    IF Failures[e] >= MaxFailures THEN TRUE
    ELSE IF IsConcurrent /\ CurrentIndex[e] > End[e] THEN TRUE
    ELSE IF done[e] THEN TRUE
    ELSE FALSE

handleChannelStatusNoFloor(f, status) ==
    IF status # StatusOK THEN f + 1 ELSE f - 1

\* the value handleChannelStatus leaves in Failures, from the value f it finds
handleChannelStatus(f, status) ==
    IF status # StatusOK THEN f + 1
    ELSE IF f > 0 THEN f - 1
    ELSE f

setRecoveryStartUnguarded(e) == CurrentIndex[e] - (Failures[e] * PageSize)

\* the value setRecoveryStart leaves in Start
setRecoveryStart(e) ==
    IF CurrentIndex[e] # 0
    THEN CurrentIndex[e] - (Failures[e] * PageSize)
    ELSE Start[e]

\* the head of the recovery loop: where a runner goes when the loop condition
\* is evaluated with r recoveries (exit is where it goes when the loop ends)
LoopHead(r, exit) == IF r <= MaxRecoveries THEN "channelControl" ELSE exit

\* a per-engine field with engine e's entry back at its zero value
Zero(f, e) == [f EXCEPT ![e] = 0]

\* pcs at which a runner is blocked sending a status on its ResponseChannel
SendPCs == {"push", "Persist500", "Persist200"}

\* some runner is blocked sending on channel c
SenderReady(c) == \E s \in Engines : pc[s] \in SendPCs /\ ChannelOf(s) = c

\* ------------------------------------------------------- channelControl
\* channelControl, first statement: start the aggregator goroutine
ChannelControl(e) ==
    /\ panic = "none"
    /\ pc[e] = "channelControl"
    /\ IF UseDefaultChannelControl
       THEN /\ aggregators' = [aggregators EXCEPT ![e] = @ + 1]
            /\ pc' = [pc EXCEPT ![e] = "LockAdd"]
            /\ UNCHANGED invocations
       ELSE /\ pc' = [pc EXCEPT ![e] = "EntryPoint"]
            /\ invocations' = [invocations EXCEPT ![e] = @ + 1]
            /\ UNCHANGED aggregators
    /\ UNCHANGED <<cfgVars, engVars, coordVars, LastGoRoutineRange, mutex, Lock,
                   sending, err, ops, connectedToIndex, nonOK, assigned,
                   capacitySignals, activitySignals, stop, doneCalls, panic>>

\* channelControl, second statement: engine.Lock.Add(1); the runner then
\* invokes the entry point
LockAdd(e) ==
    /\ panic = "none"
    /\ pc[e] = "LockAdd"
    /\ Lock' = [Lock EXCEPT ![LockOf(e)] = @ + 1]
    /\ pc' = [pc EXCEPT ![e] = "EntryPoint"]
    /\ invocations' = [invocations EXCEPT ![e] = @ + 1]
    /\ UNCHANGED <<cfgVars, engVars, coordVars, LastGoRoutineRange, mutex,
                   aggregators, sending, err, ops, connectedToIndex, nonOK,
                   assigned, capacitySignals, activitySignals, stop, doneCalls,
                   panic>>

\* the aggregator's select, receive case: an aggregator bound to engine a takes
\* the status runner s offers and applies handleChannelStatus to a's Failures.
\* The sender goes on: Persist sends 200 after its 500, a plain push returns
\* to the entry point.
Receive(a, s) ==
    /\ panic = "none"
    /\ aggregators[a] > 0
    /\ pc[s] \in SendPCs
    /\ ChannelOf(a) = ChannelOf(s)
    /\ Failures' = [Failures EXCEPT ![a] = handleChannelStatus(@, sending[s])]
    /\ nonOK' = [nonOK EXCEPT ![a] = IF sending[s] # StatusOK THEN @ + 1 ELSE @]
    /\ IF pc[s] = "Persist500"
       THEN /\ pc' = [pc EXCEPT ![s] = "Persist200"]
            /\ sending' = [sending EXCEPT ![s] = StatusOK]
            /\ UNCHANGED err
       ELSE /\ pc' = [pc EXCEPT ![s] = "EntryPoint"]
            /\ sending' = [sending EXCEPT ![s] = 0]
            /\ err' = [err EXCEPT ![s] = FALSE]
    /\ UNCHANGED <<cfgVars, coordVars, Start, End, Recoveries, CurrentIndex,
                   done, LastGoRoutineRange, mutex, Lock, aggregators, ops,
                   connectedToIndex, invocations, assigned, capacitySignals,
                   activitySignals, stop, doneCalls, panic>>

\* the aggregator's select, default case with shouldStop true: the goroutine
\* returns and its deferred Lock.Done() runs; Done on a zero counter panics.
\* The last aggregator of a replica that has returned takes the replica's
\* copy of the engine with it.
AggregatorStop(a) ==
    /\ panic = "none"
    /\ aggregators[a] > 0
    /\ ~SenderReady(ChannelOf(a))
    /\ shouldStop(a)
    /\ aggregators' = [aggregators EXCEPT ![a] = @ - 1]
    /\ IF Lock[LockOf(a)] = 0
       THEN /\ panic' = "sync: negative WaitGroup counter"
            /\ UNCHANGED Lock
       ELSE /\ Lock' = [Lock EXCEPT ![LockOf(a)] = @ - 1]
            /\ UNCHANGED panic
    /\ IF pc[a] = "finished" /\ aggregators[a] = 1
       THEN /\ Start' = Zero(Start, a)
            /\ End' = Zero(End, a)
            /\ Failures' = Zero(Failures, a)
            /\ CurrentIndex' = Zero(CurrentIndex, a)
            /\ nonOK' = Zero(nonOK, a)
            /\ invocations' = Zero(invocations, a)
       ELSE UNCHANGED <<Start, End, Failures, CurrentIndex, nonOK, invocations>>
    /\ UNCHANGED <<cfgVars, coordVars, Recoveries, done, LastGoRoutineRange,
                   mutex, pc, sending, err, ops, connectedToIndex, assigned,
                   capacitySignals, activitySignals, stop, doneCalls>>

\* ---------------------------------------------------------- entry point
\* The caller's callback, run in the runner's goroutine.  "any" is a callback
\* that may do any of its operations in any order; "failures" is a callback
\* that signals only failures (any number up to MaxOps), never marks done, and
\* returns; "failing" is the one of them that signals exactly MaxFailures
\* failures in each attempt.
EntryOps ==
    IF EntryPoint \in {"failing", "failures"}
    THEN {"push"}
    ELSE {"push", "persist", "seek", "advance", "done"}

EntryPush(e, status) ==
    /\ panic = "none"
    /\ pc[e] = "EntryPoint"
    /\ "push" \in EntryOps
    /\ IF EntryPoint = "failing"
       THEN status = StatusInternalServerError /\ ops[e] < MaxFailures
       ELSE /\ EntryPoint = "failures" => status = StatusInternalServerError
            /\ ops[e] < MaxOps
    /\ pc' = [pc EXCEPT ![e] = "push"]
    /\ sending' = [sending EXCEPT ![e] = status]
    /\ ops' = [ops EXCEPT ![e] = @ + 1]
    /\ UNCHANGED <<cfgVars, engVars, coordVars, LastGoRoutineRange, mutex, Lock,
                   aggregators, err, connectedToIndex, invocations, nonOK,
                   assigned, capacitySignals, activitySignals, stop, doneCalls,
                   panic>>

\* Persist: the upsert fails or not; on failure 500 is sent, and control falls
\* through to the send of 200
Persist(e, failed) ==
    /\ panic = "none"
    /\ pc[e] = "EntryPoint"
    /\ "persist" \in EntryOps
    /\ ops[e] < MaxOps
    /\ err' = [err EXCEPT ![e] = failed]
    /\ IF failed
       THEN /\ pc' = [pc EXCEPT ![e] = "Persist500"]
            /\ sending' = [sending EXCEPT ![e] = StatusInternalServerError]
       ELSE /\ pc' = [pc EXCEPT ![e] = "Persist200"]
            /\ sending' = [sending EXCEPT ![e] = StatusOK]
    /\ ops' = [ops EXCEPT ![e] = @ + 1]
    /\ UNCHANGED <<cfgVars, engVars, coordVars, LastGoRoutineRange, mutex, Lock,
                   aggregators, connectedToIndex, invocations, nonOK, assigned,
                   capacitySignals, activitySignals, stop, doneCalls, panic>>

\* the entry point starts fetching at the engine's Start
EntrySeek(e) ==
    /\ panic = "none"
    /\ pc[e] = "EntryPoint"
    /\ "seek" \in EntryOps
    /\ CurrentIndex[e] # Start[e]
    /\ CurrentIndex' = [CurrentIndex EXCEPT ![e] = Start[e]]
    /\ UNCHANGED <<cfgVars, coordVars, Start, End, Failures, Recoveries, done,
                   LastGoRoutineRange, mutex, Lock, pc, aggregators, sending,
                   err, ops, connectedToIndex, invocations, nonOK, assigned,
                   capacitySignals, activitySignals, stop, doneCalls, panic>>

\* the entry point advances the fetch index by one page (a replica's until it
\* is past the replica's range)
EntryAdvance(e) ==
    /\ panic = "none"
    /\ pc[e] = "EntryPoint"
    /\ "advance" \in EntryOps
    /\ IF IsConcurrent
       THEN CurrentIndex[e] <= End[e]
       ELSE CurrentIndex[e] + PageSize <= MaxIndex
    /\ CurrentIndex' = [CurrentIndex EXCEPT ![e] = @ + PageSize]
    /\ UNCHANGED <<cfgVars, coordVars, Start, End, Failures, Recoveries, done,
                   LastGoRoutineRange, mutex, Lock, pc, aggregators, sending,
                   err, ops, connectedToIndex, invocations, nonOK, assigned,
                   capacitySignals, activitySignals, stop, doneCalls, panic>>

MarkDoneToggle(e) == [done EXCEPT ![e] = ~@]

\* the value Done() leaves in done: engine.done = true
MarkDone(e) == [done EXCEPT ![e] = TRUE]

\* Done() called by the entry point
Done(e) ==
    /\ panic = "none"
    /\ pc[e] = "EntryPoint"
    /\ "done" \in EntryOps
    /\ done' = MarkDone(e)
    /\ UNCHANGED <<cfgVars, coordVars, Start, End, Failures, Recoveries,
                   CurrentIndex, LastGoRoutineRange, mutex, Lock, pc,
                   aggregators, sending, err, ops, connectedToIndex, invocations,
                   nonOK, assigned, capacitySignals, activitySignals, stop,
                   doneCalls, panic>>

\* the entry point returns (its count of pushes dies with its frame); the runner
\* reaches engine.Lock.Wait()
EntryReturn(e) ==
    /\ panic = "none"
    /\ pc[e] = "EntryPoint"
    /\ EntryPoint = "failing" => ops[e] >= MaxFailures
    /\ pc' = [pc EXCEPT ![e] = "LockWait"]
    /\ ops' = [ops EXCEPT ![e] = 0]
    /\ UNCHANGED <<cfgVars, engVars, coordVars, LastGoRoutineRange, mutex, Lock,
                   aggregators, sending, err, connectedToIndex, invocations,
                   nonOK, assigned, capacitySignals, activitySignals, stop,
                   doneCalls, panic>>

\* ------------------------------------------------------ runAsSequential
\* InitElastic (which calls itself again until the client is made and the ping
\* answered, changing nothing else), ConnectedToIndex, Recoveries = 0 and the
\* first test of the loop condition; the runner returns when ConnectedToIndex
\* is false (the existence check or the creation of the index failed)
SeqSetup(connected) ==
    /\ panic = "none"
    /\ pc[Caller] = "runAsSequential"
    /\ connectedToIndex' = [connectedToIndex EXCEPT ![Caller] = connected]
    /\ IF connected
       THEN /\ Recoveries' = [Recoveries EXCEPT ![Caller] = 0]
            /\ pc' = [pc EXCEPT ![Caller] = LoopHead(0, "returned")]
       ELSE /\ pc' = [pc EXCEPT ![Caller] = "returned"]
            /\ UNCHANGED Recoveries
    /\ UNCHANGED <<cfgVars, coordVars, Start, End, Failures, CurrentIndex, done,
                   LastGoRoutineRange, mutex, Lock, aggregators, sending, err,
                   ops, invocations, nonOK, assigned, capacitySignals,
                   activitySignals, stop, doneCalls, panic>>

\* engine.Lock.Wait() returns; then the rest of the loop body
SeqWait ==
    /\ panic = "none"
    /\ pc[Caller] = "LockWait"
    /\ Lock[LockOf(Caller)] = 0
    /\ IF done[Caller]
       THEN /\ pc' = [pc EXCEPT ![Caller] = "returned"]
            /\ UNCHANGED <<Start, Failures, Recoveries, nonOK>>
       ELSE /\ Start' = [Start EXCEPT ![Caller] = setRecoveryStart(Caller)]
            /\ Failures' = [Failures EXCEPT ![Caller] = 0]
            /\ nonOK' = [nonOK EXCEPT ![Caller] = 0]
            /\ Recoveries' = [Recoveries EXCEPT ![Caller] = @ + 1]
            /\ pc' = [pc EXCEPT ![Caller] = LoopHead(Recoveries[Caller] + 1, "returned")]
    /\ UNCHANGED <<cfgVars, coordVars, End, CurrentIndex, done,
                   LastGoRoutineRange, mutex, Lock, aggregators, sending, err,
                   ops, connectedToIndex, invocations, assigned, capacitySignals,
                   activitySignals, stop, doneCalls, panic>>

\* ---------------------------------------------------------- spawnEngine
ExhaustedExitNoShrink == "activeEnginesChannel"

\* the statement after spawnEngine's recovery loop: the send of -1 on
\* maxEnginesChannel (the send on activeEnginesChannel follows it)
ExhaustedExit == "maxEnginesChannel"

\* InitElastic, then ConnectedToIndex under the mutex
ReplicaSetup(r, connected) ==
    /\ panic = "none"
    /\ pc[r] = "spawnEngine"
    /\ mutex = 0
    /\ connectedToIndex' = [connectedToIndex EXCEPT ![r] = connected]
    /\ pc' = [pc EXCEPT ![r] = IF connected THEN "setRange" ELSE "activeEnginesChannel"]
    /\ UNCHANGED <<cfgVars, engVars, coordVars, LastGoRoutineRange, mutex, Lock,
                   aggregators, sending, err, ops, invocations, nonOK, assigned,
                   capacitySignals, activitySignals, stop, doneCalls, panic>>

\* setRange up to mutex.Lock(): the cursor is read outside the mutex
SetRangeRead(r) ==
    /\ panic = "none"
    /\ pc[r] = "setRange"
    /\ LET lastRange == LastGoRoutineRange
           start == IF lastRange > -1 THEN lastRange ELSE Start[r]
       IN /\ Start' = [Start EXCEPT ![r] = start]
          /\ End' = [End EXCEPT ![r] = start + ReplicaRange - 1]
    /\ pc' = [pc EXCEPT ![r] = "mutexLock"]
    /\ UNCHANGED <<cfgVars, coordVars, Failures, Recoveries, CurrentIndex, done,
                   LastGoRoutineRange, mutex, Lock, aggregators, sending, err,
                   ops, connectedToIndex, invocations, nonOK, assigned,
                   capacitySignals, activitySignals, stop, doneCalls, panic>>

\* the map read of setRange while another replica is inside its map write:
\* the Go runtime may end the process
SetRangeReadFatal(r) ==
    /\ panic = "none"
    /\ pc[r] = "setRange"
    /\ \E w \in Replicas : w # r /\ pc[w] = "mapWrite"
    /\ panic' = "fatal error: concurrent map read and map write"
    /\ UNCHANGED <<cfgVars, engVars, coordVars, LastGoRoutineRange, mutex, Lock,
                   pc, aggregators, sending, err, ops, connectedToIndex,
                   invocations, nonOK, assigned, capacitySignals,
                   activitySignals, stop, doneCalls>>

\* mutex.Lock() of setRange
SetRangeLock(r) ==
    /\ panic = "none"
    /\ pc[r] = "mutexLock"
    /\ mutex = 0
    /\ mutex' = r
    /\ pc' = [pc EXCEPT ![r] = "mapWrite"]
    /\ UNCHANGED <<cfgVars, engVars, coordVars, LastGoRoutineRange, Lock,
                   aggregators, sending, err, ops, connectedToIndex, invocations,
                   nonOK, assigned, capacitySignals, activitySignals, stop,
                   doneCalls, panic>>

CursorAfterStale(r) == End[r]

\* the value setRange writes to ControlConfig["LastGoRoutineRange"]
CursorAfter(r) == End[r] + 1

\* the cursor write and mutex.Unlock() of setRange, its log line, then the
\* first test of the recovery loop's condition
SetRangeWrite(r) ==
    /\ panic = "none"
    /\ pc[r] = "mapWrite"
    /\ LastGoRoutineRange' = CursorAfter(r)
    /\ mutex' = 0
    /\ assigned' = [assigned EXCEPT ![r] = <<Start[r], End[r]>>]
    /\ pc' = [pc EXCEPT ![r] = LoopHead(Recoveries[r], ExhaustedExit)]
    /\ UNCHANGED <<cfgVars, engVars, coordVars, Lock, aggregators, sending, err,
                   ops, connectedToIndex, invocations, nonOK, capacitySignals,
                   activitySignals, stop, doneCalls, panic>>

\* engine.Lock.Wait() returns; then the rest of the loop body
ReplicaWait(r) ==
    /\ panic = "none"
    /\ r \in Replicas
    /\ pc[r] = "LockWait"
    /\ Lock[LockOf(r)] = 0
    /\ IF done[r]
       THEN /\ pc' = [pc EXCEPT ![r] = "activeEnginesChannel"]
            /\ UNCHANGED <<Start, Failures, Recoveries, nonOK>>
       ELSE /\ Start' = [Start EXCEPT ![r] = setRecoveryStart(r)]
            /\ Failures' = [Failures EXCEPT ![r] = 0]
            /\ nonOK' = [nonOK EXCEPT ![r] = 0]
            /\ Recoveries' = [Recoveries EXCEPT ![r] = @ + 1]
            /\ pc' = [pc EXCEPT ![r] = LoopHead(Recoveries[r] + 1, ExhaustedExit)]
    /\ UNCHANGED <<cfgVars, coordVars, End, CurrentIndex, done,
                   LastGoRoutineRange, mutex, Lock, aggregators, sending, err,
                   ops, connectedToIndex, invocations, assigned, capacitySignals,
                   activitySignals, stop, doneCalls, panic>>

\* ------------------------------------------------------ runAsConcurrent
\* a replica is blocked sending -1 on one of the two control channels
ControlReady == \E r \in Replicas : pc[r] \in {"maxEnginesChannel", "activeEnginesChannel"}

ShouldReturnIdle == activeEngines = 0

\* the test at the head of the coordinator's loop
ShouldReturn == activeEngines = 0 /\ maxEngines = 0

\* if activeEngines == 0 && maxEngines == 0 { return }
CoordReturn ==
    /\ panic = "none"
    /\ coord = "loop"
    /\ ShouldReturn
    /\ coord' = "returned"
    /\ UNCHANGED <<cfgVars, engVars, LastGoRoutineRange, mutex, Lock,
                   activeEngines, maxEngines, spawned, pc, aggregators, sending,
                   err, ops, connectedToIndex, invocations, nonOK, assigned,
                   capacitySignals, activitySignals, stop, doneCalls, panic>>

\* case value := <-activeEnginesChannel: the replica's goroutine returns, and
\* its copy of the engine dies with it unless an aggregator still holds it
CoordRecvActive(r) ==
    /\ panic = "none"
    /\ coord = "loop"
    /\ ~ShouldReturn
    /\ pc[r] = "activeEnginesChannel"
    /\ activeEngines' = activeEngines + (-1)
    /\ activitySignals' = [activitySignals EXCEPT ![r] = @ + 1]
    /\ pc' = [pc EXCEPT ![r] = "finished"]
    /\ IF aggregators[r] = 0
       THEN /\ Start' = Zero(Start, r)
            /\ End' = Zero(End, r)
            /\ Failures' = Zero(Failures, r)
            /\ CurrentIndex' = Zero(CurrentIndex, r)
            /\ nonOK' = Zero(nonOK, r)
            /\ invocations' = Zero(invocations, r)
       ELSE UNCHANGED <<Start, End, Failures, CurrentIndex, nonOK, invocations>>
    /\ UNCHANGED <<cfgVars, Recoveries, done, LastGoRoutineRange, mutex, Lock,
                   coord, maxEngines, spawned, aggregators, sending, err, ops,
                   connectedToIndex, assigned, capacitySignals, stop, doneCalls,
                   panic>>

\* case value := <-maxEnginesChannel; the replica goes on to its last send
CoordRecvMax(r) ==
    /\ panic = "none"
    /\ coord = "loop"
    /\ ~ShouldReturn
    /\ pc[r] = "maxEnginesChannel"
    /\ maxEngines' = maxEngines + (-1)
    /\ capacitySignals' = [capacitySignals EXCEPT ![r] = @ + 1]
    /\ pc' = [pc EXCEPT ![r] = "activeEnginesChannel"]
    /\ UNCHANGED <<cfgVars, engVars, LastGoRoutineRange, mutex, Lock, coord,
                   activeEngines, spawned, aggregators, sending, err, ops,
                   connectedToIndex, invocations, nonOK, assigned,
                   activitySignals, stop, doneCalls, panic>>

CanSpawnInclusive == activeEngines <= maxEngines

\* the test of the coordinator's default branch
CanSpawn == activeEngines < maxEngines

\* default: if activeEngines < maxEngines, count and start a replica on a copy
\* of the caller's engine
CoordSpawn ==
    /\ panic = "none"
    /\ coord = "loop"
    /\ ~ShouldReturn
    /\ ~ControlReady
    /\ CanSpawn
    /\ spawned < MaxSpawns
    /\ LET r == spawned + 1
       IN /\ Start' = [Start EXCEPT ![r] = Start[Caller]]
          /\ End' = [End EXCEPT ![r] = End[Caller]]
          /\ Failures' = [Failures EXCEPT ![r] = Failures[Caller]]
          /\ Recoveries' = [Recoveries EXCEPT ![r] = Recoveries[Caller]]
          /\ CurrentIndex' = [CurrentIndex EXCEPT ![r] = CurrentIndex[Caller]]
          /\ done' = [done EXCEPT ![r] = done[Caller]]
          /\ pc' = [pc EXCEPT ![r] = "spawnEngine"]
    /\ activeEngines' = activeEngines + 1
    /\ spawned' = spawned + 1
    /\ UNCHANGED <<cfgVars, LastGoRoutineRange, mutex, Lock, coord, maxEngines,
                   aggregators, sending, err, ops, connectedToIndex, invocations,
                   nonOK, assigned, capacitySignals, activitySignals, stop,
                   doneCalls, panic>>

\* ------------------------------------------------------- specifications
\* no goroutine started, nothing held, nothing observed
InitShared ==
    /\ mutex = 0
    /\ Lock = [e \in Engines |-> 0]
    /\ activeEngines = 0
    /\ spawned = 0
    /\ aggregators = [e \in Engines |-> 0]
    /\ sending = [e \in Engines |-> 0]
    /\ err = [e \in Engines |-> FALSE]
    /\ ops = [e \in Engines |-> 0]
    /\ connectedToIndex = [e \in Engines |-> FALSE]
    /\ invocations = [e \in Engines |-> 0]
    /\ nonOK = [e \in Engines |-> 0]
    /\ assigned = [e \in Engines |-> <<>>]
    /\ capacitySignals = [e \in Engines |-> 0]
    /\ activitySignals = [e \in Engines |-> 0]
    /\ stop = <<>>
    /\ doneCalls = 0
    /\ panic = "none"

\* what NewEngine and the options leave in the engines and the goroutines
\* before a run: zero-valued mutable fields, no goroutine started
InitIdle ==
    /\ Failures = [e \in Engines |-> 0]
    /\ Recoveries = [e \in Engines |-> 0]
    /\ CurrentIndex = [e \in Engines |-> 0]
    /\ done = [e \in Engines |-> FALSE]
    /\ InitShared

\* NewEngine(Start(0), End(25), PageSize(10), MaxFailures(1), MaxRecoveries(..),
\* Concurrency(.., 10), EntryPoint(..)) has been built and runAsConcurrent is
\* entered: three replicas with the failing callback, two of them with one
\* recovery each, or one replica at a time with any callback
Init ==
    /\ InitIdle
    /\ IsConcurrent = TRUE
    /\ ReplicaRange = 10
    /\ PageSize = 10
    /\ MaxFailures = 1
    /\ \/ MaxReplicas = 3 /\ EntryPoint = "failing" /\ MaxRecoveries = 0
       \/ MaxReplicas = 2 /\ EntryPoint = "failing" /\ MaxRecoveries = 1
       \/ MaxReplicas = 1 /\ EntryPoint = "any" /\ MaxRecoveries \in {0, 1}
    /\ Start = [e \in Engines |-> 0]
    /\ End = [e \in Engines |-> IF e = Caller THEN 25 ELSE 0]
    /\ LastGoRoutineRange = 0
    /\ coord = "loop"
    /\ maxEngines = MaxReplicas
    /\ pc = [e \in Engines |-> IF e = Caller THEN "runAsConcurrent" ELSE "idle"]

Next ==
    \/ CoordReturn
    \/ \E r \in Replicas : CoordRecvActive(r)
    \/ \E r \in Replicas : CoordRecvMax(r)
    \/ CoordSpawn
    \/ \E r \in Replicas, connected \in BOOLEAN : ReplicaSetup(r, connected)
    \/ \E r \in Replicas : SetRangeRead(r)
    \/ \E r \in Replicas : SetRangeReadFatal(r)
    \/ \E r \in Replicas : SetRangeLock(r)
    \/ \E r \in Replicas : SetRangeWrite(r)
    \/ \E r \in Replicas : ChannelControl(r)
    \/ \E r \in Replicas : LockAdd(r)
    \/ \E r \in Replicas, status \in StatusCodes : EntryPush(r, status)
    \/ \E r \in Replicas, failed \in BOOLEAN : Persist(r, failed)
    \/ \E r \in Replicas : EntrySeek(r)
    \/ \E r \in Replicas : EntryAdvance(r)
    \/ \E r \in Replicas : Done(r)
    \/ \E r \in Replicas : EntryReturn(r)
    \/ \E a \in Replicas, s \in Replicas : Receive(a, s)
    \/ \E a \in Replicas : AggregatorStop(a)
    \/ \E r \in Replicas : ReplicaWait(r)

Spec == Init /\ [][Next]_vars

\* the coordinator's goroutine
Coordinator ==
    \/ CoordReturn
    \/ \E r \in Replicas : CoordRecvActive(r)
    \/ \E r \in Replicas : CoordRecvMax(r)
    \/ CoordSpawn

\* the Go scheduler runs the coordinator's goroutine again and again
FairSpec == Init /\ [][Next]_vars /\ WF_vars(Coordinator)

\* a replica's goroutine (the entry point runs in it)
ReplicaRunner(r) ==
    \/ \E connected \in BOOLEAN : ReplicaSetup(r, connected)
    \/ SetRangeRead(r)
    \/ SetRangeLock(r)
    \/ SetRangeWrite(r)
    \/ ChannelControl(r)
    \/ LockAdd(r)
    \/ \E status \in StatusCodes : EntryPush(r, status)
    \/ \E failed \in BOOLEAN : Persist(r, failed)
    \/ EntrySeek(r)
    \/ EntryAdvance(r)
    \/ Done(r)
    \/ EntryReturn(r)
    \/ ReplicaWait(r)

\* the aggregator goroutines bound to replica a's engine
Aggregator(a) ==
    \/ \E s \in Replicas : Receive(a, s)
    \/ AggregatorStop(a)

\* the Go scheduler runs every goroutine that can run again and again
FairConc ==
    /\ Init /\ [][Next]_vars
    /\ WF_vars(Coordinator)
    /\ \A r \in Replicas : WF_vars(ReplicaRunner(r)) /\ WF_vars(Aggregator(r))

\* NewEngine(Start(0), PageSize(..), MaxFailures(..), MaxRecoveries(..),
\* EntryPoint(..)) has been built and runAsSequential is entered
InitSeq ==
    /\ InitIdle
    /\ IsConcurrent = FALSE
    /\ MaxReplicas = 0
    /\ ReplicaRange = 0
    /\ PageSize \in {2, 5}
    /\ MaxFailures \in {1, 2}
    /\ MaxRecoveries \in {0, 1}
    /\ EntryPoint \in {"any", "failing", "failures"}
    /\ Start = [e \in Engines |-> 0]
    /\ End = [e \in Engines |-> 0]
    /\ LastGoRoutineRange = 0
    /\ coord = "idle"
    /\ maxEngines = 0
    /\ pc = [e \in Engines |-> IF e = Caller THEN "runAsSequential" ELSE "idle"]

NextSeq ==
    \/ \E connected \in BOOLEAN : SeqSetup(connected)
    \/ ChannelControl(Caller)
    \/ LockAdd(Caller)
    \/ \E status \in StatusCodes : EntryPush(Caller, status)
    \/ \E failed \in BOOLEAN : Persist(Caller, failed)
    \/ EntrySeek(Caller)
    \/ EntryAdvance(Caller)
    \/ Done(Caller)
    \/ EntryReturn(Caller)
    \/ Receive(Caller, Caller)
    \/ AggregatorStop(Caller)
    \/ SeqWait

SpecSeq == InitSeq /\ [][NextSeq]_vars

\* the runner's goroutine (the entry point runs in it)
SeqRunner ==
    \/ \E connected \in BOOLEAN : SeqSetup(connected)
    \/ ChannelControl(Caller)
    \/ LockAdd(Caller)
    \/ \E status \in StatusCodes : EntryPush(Caller, status)
    \/ \E failed \in BOOLEAN : Persist(Caller, failed)
    \/ EntrySeek(Caller)
    \/ EntryAdvance(Caller)
    \/ Done(Caller)
    \/ EntryReturn(Caller)
    \/ SeqWait

\* the aggregator's goroutine
SeqAggregator == Receive(Caller, Caller) \/ AggregatorStop(Caller)

\* the Go scheduler runs every goroutine that can run again and again
FairSeq ==
    InitSeq /\ [][NextSeq]_vars /\ WF_vars(SeqRunner) /\ WF_vars(SeqAggregator)

\* ------------------------------------------------- the policy functions
\* shouldStop called on the caller's engine
PolicyShouldStop ==
    /\ panic = "none"
    /\ pc[Caller] = "policy"
    /\ stop' = <<shouldStop(Caller)>>
    /\ UNCHANGED <<cfgVars, engVars, coordVars, LastGoRoutineRange, mutex, Lock,
                   pc, aggregators, sending, err, ops, connectedToIndex,
                   invocations, nonOK, assigned, capacitySignals,
                   activitySignals, doneCalls, panic>>

\* Done() called on the caller's engine, and shouldStop after it
PolicyDone ==
    /\ panic = "none"
    /\ pc[Caller] = "policy"
    /\ doneCalls < MaxCount
    /\ doneCalls' = doneCalls + 1
    /\ done' = MarkDone(Caller)
    /\ UNCHANGED <<cfgVars, End, Failures, CurrentIndex>>
    /\ stop' = <<shouldStop(Caller)'>>
    /\ UNCHANGED <<coordVars, Start, Recoveries, LastGoRoutineRange, mutex, Lock,
                   pc, aggregators, sending, err, ops, connectedToIndex,
                   invocations, nonOK, assigned, capacitySignals,
                   activitySignals, panic>>

\* an engine in any state of its fields, in sequential or in concurrent mode
InitPolicy ==
    /\ IsConcurrent \in BOOLEAN
    /\ MaxReplicas = 0
    /\ ReplicaRange = 0
    /\ PageSize \in {2, 5}
    /\ MaxFailures \in 1..MaxCount
    /\ MaxRecoveries = 1
    /\ EntryPoint = "any"
    /\ Start = [e \in Engines |-> 0]
    /\ \E end \in {0, 5, MaxIndex} :
           End = [e \in Engines |-> IF e = Caller THEN end ELSE 0]
    /\ \E failures \in 0..MaxCount :
           Failures = [e \in Engines |-> IF e = Caller THEN failures ELSE 0]
    /\ \E index \in {0, 5, MaxIndex, MaxIndex + 1} :
           CurrentIndex = [e \in Engines |-> IF e = Caller THEN index ELSE 0]
    /\ \E d \in BOOLEAN :
           done = [e \in Engines |-> e = Caller /\ d]
    /\ Recoveries = [e \in Engines |-> 0]
    /\ InitShared
    /\ LastGoRoutineRange = 0
    /\ coord = "idle"
    /\ maxEngines = 0
    /\ pc = [e \in Engines |-> IF e = Caller THEN "policy" ELSE "idle"]

NextPolicy ==
    \/ PolicyShouldStop
    \/ PolicyDone

SpecPolicy == InitPolicy /\ [][NextPolicy]_vars

\* Range allocation on its own: the Start option has seeded the cursor and the
\* engine's Start, and replicas call setRange strictly one after another.
InSetRange == {r \in Replicas : pc[r] \in {"setRange", "mutexLock", "mapWrite"}}

\* the next replica gets its copy of the caller's engine and calls setRange,
\* once no other replica is inside setRange
AllocNext ==
    /\ panic = "none"
    /\ pc[Caller] = "allocating"
    /\ InSetRange = {}
    /\ spawned < MaxSpawns
    /\ LET r == spawned + 1
       IN /\ Start' = [Start EXCEPT ![r] = Start[Caller]]
          /\ End' = [End EXCEPT ![r] = End[Caller]]
          /\ connectedToIndex' = [connectedToIndex EXCEPT ![r] = TRUE]
          /\ pc' = [pc EXCEPT ![r] = "setRange"]
    /\ spawned' = spawned + 1
    /\ UNCHANGED <<cfgVars, Failures, Recoveries, CurrentIndex, done,
                   LastGoRoutineRange, mutex, Lock, coord, activeEngines,
                   maxEngines, aggregators, sending, err, ops, invocations,
                   nonOK, assigned, capacitySignals, activitySignals, stop,
                   doneCalls, panic>>

\* NewEngine(Start(s), Concurrency(MaxSpawns, w)) for a start index s and a
\* positive width w
InitRange ==
    /\ InitIdle
    /\ IsConcurrent = TRUE
    /\ MaxReplicas = MaxSpawns
    /\ ReplicaRange \in 1..MaxCount
    /\ PageSize = 1
    /\ MaxFailures = 1
    /\ MaxRecoveries = 0
    /\ EntryPoint = "any"
    /\ \E s \in {-MaxCount, -1, 0, 2} :
          /\ Start = [e \in Engines |-> IF e = Caller THEN s ELSE 0]
          /\ LastGoRoutineRange = s
    /\ End = [e \in Engines |-> 0]
    /\ coord = "idle"
    /\ maxEngines = 0
    /\ pc = [e \in Engines |-> IF e = Caller THEN "allocating" ELSE "idle"]

NextRange ==
    \/ AllocNext
    \/ \E r \in Replicas : SetRangeRead(r)
    \/ \E r \in Replicas : SetRangeLock(r)
    \/ \E r \in Replicas : SetRangeWrite(r)

SpecRange == InitRange /\ [][NextRange]_vars

\* ================================================================ claims

\* the replicas setRange has logged a range for
Ranged == {r \in Replicas : assigned[r] # <<>>}

\* C1: in concurrent mode no two replicas are assigned the same start index and
\* no two assigned [Start, End] ranges overlap, under every interleaving of the
\* replicas that execute setRange.
C1_NoOverlap ==
    \A r1 \in Ranged : \A r2 \in Ranged \ {r1} :
        /\ assigned[r1][1] # assigned[r2][1]
        /\ \/ assigned[r1][2] < assigned[r2][1]
           \/ assigned[r2][2] < assigned[r1][1]

\* C2: each replica exclusively owns its runtime state, status channel and
\* synchronization handle: the signal a replica pushes changes no other
\* replica's failure count; a replica's wait returns only once its own
\* aggregators have ended, and is not held up once they have.
C2_PrivateState ==
    [][ /\ \A s \in Replicas :
             (pc[s] \in SendPCs /\ pc'[s] # pc[s])
                 => \A r \in Replicas \ {s} : Failures'[r] = Failures[r]
        /\ \A r \in Replicas :
             (pc[r] = "LockWait" /\ pc'[r] # "LockWait") => aggregators[r] = 0
        /\ \A r \in Replicas :
             (pc[r] = "LockWait" /\ aggregators[r] = 0) => Lock[LockOf(r)] = 0
      ]_vars

\* C4: with MaxReplicas = 3, ReplicaRange = 10 and Start = 0 the k-th spawned
\* replica receives the k-th of the ranges [0,9], [10,19], [20,29], and no range
\* is assigned to a second replica.
C4_SpawnOrderRanges ==
    MaxReplicas = 3 =>
        /\ \A k \in Ranged \cap (1..3) :
             (\A j \in 1..k : connectedToIndex[j])
                 => assigned[k] = <<ReplicaRange * (k - 1), ReplicaRange * k - 1>>
        /\ \A r1 \in Ranged : \A r2 \in Ranged \ {r1} : assigned[r1] # assigned[r2]

\* replicas running: spawned, and not yet in or past their last send
Working == {r \in Replicas : pc[r] \notin {"idle", "finished", "activeEnginesChannel"}}

\* replicas whose run ended, by how it ended
EndedDone == {r \in Replicas : pc[r] = "finished" /\ done[r]}

EndedExhausted ==
    {r \in Replicas : pc[r] = "finished" /\ connectedToIndex[r] /\ ~done[r]}

\* C5: a replica whose run ends with done set sends exactly one activity -1 and
\* no capacity signal; a replica that exhausts its recovery budget sends exactly
\* one capacity -1 and exactly one activity -1; maxEngines never increases, is
\* MaxReplicas less one per exhausted replica that has signalled, and the
\* replicas running never outnumber it (an exhausted replica's slot is not
\* refilled).
C5_ExitSignals ==
    [][ /\ \A r \in EndedDone' :
             activitySignals'[r] = 1 /\ capacitySignals'[r] = 0
        /\ \A r \in EndedExhausted' :
             activitySignals'[r] = 1 /\ capacitySignals'[r] = 1
        /\ \A r \in Replicas : activitySignals'[r] <= 1 /\ capacitySignals'[r] <= 1
        /\ maxEngines' <= maxEngines
        /\ maxEngines' = MaxReplicas
                - Cardinality({r \in Replicas : capacitySignals'[r] = 1})
        /\ \A r \in Replicas :
             capacitySignals'[r] = 1 => connectedToIndex'[r] /\ ~done'[r]
        /\ Cardinality(Working') <= maxEngines'
      ]_vars

\* C5 witness: after one replica ended done and another ended exhausted, a
\* third has been spawned
C5_Witness ==
    /\ EndedDone # {}
    /\ EndedExhausted # {}
    /\ maxEngines < MaxReplicas

\* every replica spawned has completed its send of activity -1
AllSignalled == \A r \in Replicas : pc[r] \in {"idle", "finished"}

\* C6: runAsConcurrent returns only with activeEngines = 0 and maxEngines = 0,
\* when no spawned replica is still running or blocked on a control channel;
\* and it does return once MaxReplicas replicas have exhausted their recovery
\* budgets and every spawned replica has signalled activity -1.
C6_CoordinatorReturn ==
    /\ [](coord = "returned" =>
            activeEngines = 0 /\ maxEngines = 0 /\ AllSignalled)
    /\ (Cardinality(EndedExhausted) = MaxReplicas /\ AllSignalled)
           ~> (coord = "returned")

\* C6 witness: the coordinator has returned after three replicas were exhausted
C6_Witness == coord = "returned" /\ Cardinality(EndedExhausted) = 3

\* C3: in sequential mode, with an entry point that signals only failures and
\* never marks done, the runner invokes the entry point exactly
\* MaxRecoveries + 1 times and then returns with done unset: it never starts a
\* further attempt, it does not return after fewer, and it does return.
C3_Attempts ==
    /\ [](/\ invocations[Caller] <= MaxRecoveries + 1
          /\ EntryPoint \in {"failing", "failures"} => ~done[Caller]
          /\ (pc[Caller] = "returned" /\ connectedToIndex[Caller] /\ ~done[Caller])
                => invocations[Caller] = MaxRecoveries + 1)
    /\ (EntryPoint \in {"failing", "failures"} /\ connectedToIndex[Caller])
           ~> (pc[Caller] = "returned")

\* C7: within a run attempt the failure count is at every point >= 0 and <= the
\* number of failure (non-200) signals the aggregator has handled in it.
C7_FailuresBounded ==
    \A e \in Engines : 0 <= Failures[e] /\ Failures[e] <= nonOK[e]

\* C7 witness: in one attempt a failure signal and then a success signal have
\* been handled
C7_Witness ==
    /\ nonOK[Caller] = 1 /\ Failures[Caller] = 0
    /\ pc[Caller] = "EntryPoint" /\ ops[Caller] = 2

\* C9: for every upsert attempt Persist pushes exactly one status code, 200 if
\* the upsert succeeded and 500 if it failed: a failed upsert is never also
\* reported as a success.
C9_OneStatusPerUpsert ==
    \A e \in Engines : ~(pc[e] = "Persist200" /\ err[e])

\* C10: every status signal the entry point pushes during a run attempt is
\* consumed by that attempt's aggregator: no push stays unconsumed with the
\* pusher blocked on the unbuffered channel and no aggregator left to receive.
C10_EveryPushConsumed ==
    \A e \in Engines : pc[e] \in SendPCs => aggregators[e] > 0

\* C8: shouldStop returns true if and only if Failures >= MaxFailures, or the
\* engine is concurrent and CurrentIndex > End, or done is set.
C8_ShouldStopIff ==
    stop # <<>> =>
        (stop[1] <=> \/ Failures[Caller] >= MaxFailures
                     \/ IsConcurrent /\ CurrentIndex[Caller] > End[Caller]
                     \/ done[Caller])

\* C8 witness: shouldStop returned false with Failures = MaxFailures - 1 and
\* CurrentIndex = End on a concurrent engine that is not done
C8_Witness ==
    /\ stop = <<FALSE>>
    /\ Failures[Caller] = MaxFailures - 1
    /\ IsConcurrent /\ CurrentIndex[Caller] = End[Caller] /\ End[Caller] > 0
    /\ ~done[Caller]

\* a runner leaves Lock.Wait() after an attempt that did not end done
FailedAttemptEnds(e) == pc[e] = "LockWait" /\ pc'[e] # "LockWait" /\ ~done[e]

\* C11 as stated: after every failed run attempt, for every value of
\* CurrentIndex, Failures and PageSize, the start index of the next attempt is
\* CurrentIndex - Failures * PageSize, with the failure count the attempt ended
\* with.
C11_RecoveryStart ==
    [][ \A e \in Engines :
          FailedAttemptEnds(e)
              => Start'[e] = CurrentIndex[e] - Failures[e] * PageSize
      ]_vars

\* C11 amended: after every failed run attempt with CurrentIndex # 0 the start
\* index of the next attempt is CurrentIndex - Failures * PageSize, with the
\* failure count the attempt ended with; with CurrentIndex = 0 the start index
\* is left as it was.
C11_RecoveryStartNonZero ==
    [][ \A e \in Engines :
          FailedAttemptEnds(e)
              => IF CurrentIndex[e] # 0
                 THEN Start'[e] = CurrentIndex[e] - Failures[e] * PageSize
                 ELSE Start'[e] = Start[e]
      ]_vars

\* C11 witness: a first attempt ended failed with CurrentIndex = 10 and one
\* failure, PageSize = 5: the second attempt starts at 5
C11_Witness ==
    /\ PageSize = 5 /\ Recoveries[Caller] = 1
    /\ CurrentIndex[Caller] = 10 /\ Start[Caller] = 5

\* allocations in call order return start = the cursor, end = start + width - 1
\* and leave the cursor at end + 1: the first starts at the seed, each next one
\* where the one before ended, and no two ranges overlap
SequentialRanges ==
    /\ \A k \in Ranged :
         /\ assigned[k][1] = (IF k = 1 THEN Start[Caller] ELSE assigned[k - 1][2] + 1)
         /\ assigned[k][2] = assigned[k][1] + ReplicaRange - 1
         /\ (k = spawned) => LastGoRoutineRange = assigned[k][2] + 1
    /\ \A k1 \in Ranged : \A k2 \in Ranged \ {k1} :
         assigned[k1][2] < assigned[k2][1] \/ assigned[k2][2] < assigned[k1][1]

\* C12 as stated: when range allocations run strictly one after another from a
\* cursor freshly seeded by the Start option, for every integer start index and
\* every positive width, the returned ranges are those of SequentialRanges.
C12_SequentialRanges == SequentialRanges

\* C12 amended: the same for every start index >= 0.
C12_SequentialRangesFromZero == Start[Caller] >= 0 => SequentialRanges

\* C12 witness: from start index 2 with width 3, four allocations were made one
\* after another; the last returned [11, 13]
C12_Witness ==
    /\ Start[Caller] = 2 /\ ReplicaRange = 3
    /\ Ranged = 1..4 /\ assigned[4] = <<11, 13>>

\* C13: a connection/setup failure never abandons the run: the runner does not
\* return without the entry point having been invoked.
C13_SetupNeverAbandons ==
    pc[Caller] = "returned" => invocations[Caller] >= 1

\* replicas in a run attempt: between channelControl and the return of Lock.Wait()
Attempting == {r \in Replicas : pc[r] \in {"LockAdd", "EntryPoint", "LockWait"} \cup SendPCs}

\* C14: in concurrent mode the end index a replica's stop condition compares
\* CurrentIndex against is the caller's configured end index (the End option),
\* and every replica's shouldStop is true once its CurrentIndex exceeds that
\* configured end.
C14_ConfiguredEnd ==
    \A r \in Attempting :
        /\ End[r] = End[Caller]
        /\ CurrentIndex[r] > End[Caller] => shouldStop(r)

\* C15: Done is idempotent: from the first call on, the done flag stays set and
\* shouldStop is true after every further call; and no call to Done changes
\* the failure count, the recovery count, the current index or the start
\* index.
C15_DoneIdempotent ==
    /\ [](doneCalls >= 1 => done[Caller] /\ stop = <<TRUE>>)
    /\ [][ doneCalls' # doneCalls =>
              /\ done'[Caller]
              /\ Failures' = Failures /\ Recoveries' = Recoveries
              /\ CurrentIndex' = CurrentIndex /\ Start' = Start
        ]_vars

\* C15 witness: Done was called three times on an engine that nothing else
\* stops (2 failures of 3 allowed, sequential): done is set and shouldStop true
C15_Witness ==
    /\ doneCalls = 3 /\ done[Caller] /\ stop = <<TRUE>>
    /\ ~IsConcurrent /\ Failures[Caller] = 2 /\ MaxFailures = 3

\* C16: under every interleaving of a runner and the aggregator it starts in
\* channelControl, the WaitGroup counter never goes below zero: the
\* aggregator's Lock.Done() never runs on a counter of zero, before the
\* runner's Lock.Add(1).
C16_CounterNeverNegative ==
    panic # "sync: negative WaitGroup counter"

\* C17: in every run attempt the aggregator releases the attempt's WaitGroup
\* exactly once (the counter goes down by one when an aggregator ends and at no
\* other time), only on an iteration in which no status signal was available
\* and shouldStop was true; and the runner's wait for the attempt returns only
\* after this release, when the attempt's aggregator has ended.
C17_ReleaseOnce ==
    [][ /\ \A e \in Engines :
             aggregators'[e] < aggregators[e] =>
                 /\ aggregators'[e] = aggregators[e] - 1
                 /\ \/ Lock'[LockOf(e)] = Lock[LockOf(e)] - 1
                    \/ panic' # "none"
                 /\ ~SenderReady(ChannelOf(e))
                 /\ shouldStop(e)
        /\ Lock'[Caller] < Lock[Caller] =>
             \E e \in Engines : aggregators'[e] < aggregators[e]
        /\ \A e \in Engines :
             (pc[e] = "LockWait" /\ pc'[e] # "LockWait") => aggregators[e] = 0
      ]_vars

\* engine e's stop condition holds and no status signal is pending on its channel
Quiet(e) == shouldStop(e) /\ ~SenderReady(ChannelOf(e))

\* C18: under fair scheduling, once shouldStop holds and keeps holding and no
\* status signal is pending, the aggregator terminates and the runner's wait on
\* the handle returns, without a further status signal.
C18_StopTerminates ==
    \A e \in Engines :
        /\ (aggregators[e] > 0 /\ Quiet(e))
               ~> (aggregators[e] = 0 \/ ~Quiet(e) \/ panic # "none")
        /\ (pc[e] = "LockWait" /\ Quiet(e))
               ~> (pc[e] # "LockWait" \/ ~Quiet(e) \/ panic # "none")

\* C19: in the recovery loop every failed attempt increments Recoveries by
\* exactly one and resets Failures to zero before the next attempt starts; an
\* attempt starts only while Recoveries <= MaxRecoveries; every attempt after
\* the first begins with Failures = 0; and Recoveries never exceeds
\* MaxRecoveries + 1.
C19_RecoveryLoop ==
    /\ [](\A e \in Engines :
            /\ Recoveries[e] <= MaxRecoveries + 1
            /\ pc[e] = "channelControl" =>
                  /\ Recoveries[e] <= MaxRecoveries
                  /\ Recoveries[e] >= 1 => Failures[e] = 0)
    /\ [][ \A e \in Engines :
             FailedAttemptEnds(e) =>
                 Recoveries'[e] = Recoveries[e] + 1 /\ Failures'[e] = 0
        ]_vars

\* replica goroutines running: started, and not yet past their last send
Running == {r \in Replicas : pc[r] \notin {"idle", "finished"}}

\* C20: in every reachable state of the coordinator 0 <= activeEngines <=
\* MaxReplicas and 0 <= maxEngines <= MaxReplicas, and the replica goroutines
\* running at the same time never outnumber MaxReplicas.
C20_CounterBounds ==
    /\ 0 <= activeEngines /\ activeEngines <= MaxReplicas
    /\ 0 <= maxEngines /\ maxEngines <= MaxReplicas
    /\ Cardinality(Running) <= MaxReplicas

\* C20 witness: three replicas are running, the coordinator counts three, and
\* one of them has already given back its capacity
C20_Witness ==
    /\ MaxReplicas = 3 /\ activeEngines = 3 /\ maxEngines = 2
    /\ Cardinality(Running) = 3

====
